---- MODULE Spec2Model ----
(***************************************************************************)
(* Model of HogueResMaster v11 (src/HogueResMaster_v11.py): the build      *)
(* cache (build_signature / already_built / mark_built), the style memory  *)
(* (remember_style) and the orchestrator (run_auto / generate_for_style /  *)
(* zip_with_folders).                                                      *)
(*                                                                         *)
(* A call of run_auto is a process that walks through the steps of the     *)
(* function; several calls (OS processes started in the same working       *)
(* directory) share the on-disk stores ./.hoguers_cache,                   *)
(* ./.hoguers_session/memory.json and the output directory.                *)
(***************************************************************************)
EXTENDS Integers, Sequences, FiniteSets, TLC

\* ------------------------------------------------------------------ bounds
\* number of run_auto calls in one behaviour
MaxRuns == 2
\* longest list of requested style keys
MaxStyles == 2
\* largest value of the wall clock (time.time())
MaxClock == 2
\* number of direct calls of mark_built by a caller of the module, while
\* run_auto is being called
MaxRecordCalls == 1
\* number of direct calls of mark_built by a caller that only uses the cache
MaxCacheCalls == 3

\* longest text, in tokens
MaxTextLen == 2
\* largest component score drawn when the score set is computed alone
MaxScore == 100
\* largest number of number matches and of URL matches of a text
MaxNums == 13
MaxUrls == 4

\* longest achievement line, in characters
MaxLineLen == 4
\* longest list of achievement lines
MaxBullets == 2
\* largest cap (max_per_role) passed to tighten_bullets
MaxCap == 2
\* the length an achievement line is cut to: the 180 of t[:180], scaled down
\* so that a line of MaxLineLen characters is longer than it
SliceLen == 2

\* longest list of achievement lines passed to variant_b
MaxVariantLen == 3

\* longest text given to kw_set alone, in tokens, and the largest topn
MaxKwLen == 3
MaxTopn == 3

\* largest number of applications of the metric step to one payload
MaxApplications == 2

\* largest cap of per_section_caps
MaxInjectCap == 2

\* largest max_iters passed to optimize_to_target
MaxIters == 2

\* ------------------------------------------------------- program constants
\* the feature flags, at their defaults
V11 ==
  [ demo_mode |-> FALSE, zip_layout_mobile |-> TRUE, ab_bullet_variant |-> TRUE,
    dedup_tighten |-> TRUE, federal_gate |-> TRUE, evidence_only |-> TRUE,
    style_memory |-> TRUE, safe_share_default |-> TRUE, idempotent_runs |-> TRUE ]

TODAY == "TODAY"

\* ------------------------------------------------------------ input domains
Runs == 1..MaxRuns
StyleKeys == {"classic", "federal"}
Resumes == {"resume"}
Jds == {"jd"}
Persons == {[first |-> "Jonathan", last |-> "Hogue"]}
Companies == {"Acme", "Globex"}
Titles == {"Writer"}
Outdirs == {"out"}
StyleLists == UNION {[1..n -> StyleKeys] : n \in 0..MaxStyles}

\* the arguments of one call of run_auto
RunInputs ==
  [ outdir : Outdirs, person : Persons, company : Companies, title : Titles,
    resume_text : Resumes, jd_text : Jds, styles : StyleLists ]

NoInput == [styles |-> <<>>, none |-> TRUE]

Range(s) == {s[k] : k \in 1..Len(s)}

\* ------------------------------------------------------------- style memory
\* run_auto, line 582: the selection record built from the requested styles
Selection(styles) ==
  [styles |-> styles, length |-> "auto", options |-> <<"combined", "zip">>]

NoMemory == [empty |-> TRUE]

\* remember_style with the style_memory test inverted: nothing is remembered
remember_style_off(mem, selection) ==
  IF V11.style_memory THEN mem ELSE [last_selection |-> selection]

\* remember_style: memory.json with last_selection overwritten
remember_style(mem, selection) ==
  IF ~V11.style_memory THEN mem ELSE [last_selection |-> selection]

\* --------------------------------------------------------------- build cache
\* build_signature: sha256 over the sorted-key JSON of exactly these four
\* fields; the digest is modelled as the canonical (key-sorted) record, i.e.
\* as collision-free on the bounded domain.  company, title and outdir are
\* no arguments of it.
build_signature(resume_text, jd_text, person, selection) ==
  [resume |-> resume_text, jd |-> jd_text, person |-> person, selection |-> selection]

\* run_auto, line 584
RunSignature(in) ==
  IF V11.idempotent_runs
    THEN build_signature(in.resume_text, in.jd_text, in.person, Selection(in.styles))
    ELSE [empty |-> TRUE]

NoSig == [empty |-> TRUE]

Sigs == {RunSignature(in) : in \in RunInputs}

\* already_built: the marker file <sig>.done exists
\* a lookup that finds every signature
already_built_always(store, s) == TRUE

already_built(store, s) == s \in DOMAIN store

\* mark_built that leaves an existing marker file alone
mark_built_keep(store, s, t) ==
  IF s \in DOMAIN store THEN store
  ELSE [x \in (DOMAIN store) \cup {s} |-> IF x = s THEN t ELSE store[x]]

\* mark_built: write_text(str(time.time())) creates or overwrites <sig>.done
mark_built(store, s, t) ==
  [x \in (DOMAIN store) \cup {s} |-> IF x = s THEN t ELSE store[x]]

\* ------------------------------------------------------------------- naming
\* base_name: an unknown style key falls back to "Classic"
style_disp(style) ==
  CASE style = "classic" -> "Classic"
    [] style = "hybrid" -> "Hybrid"
    [] style = "tech_ic" -> "Technical"
    [] style = "executive" -> "Executive"
    [] style = "healthcare" -> "Healthcare"
    [] style = "federal" -> "Federal"
    [] style = "academic_cv" -> "AcademicCV"
    [] OTHER -> "Classic"

\* base_name: the file name stem, as its underscore-separated tokens
base_name(first, last, company, title, style, date_str) ==
  <<first, last, company, title, style_disp(style), date_str>>

\* a path: directory, name (underscore-separated tokens) and suffix
Path(dir, base, kind, ext) == [dir |-> dir, name |-> base \o kind, ext |-> ext]

with_suffix(p, ext) == [p EXCEPT !.ext = ext]

\* `"A_B" in name`: the tokens of pat occur consecutively in the name
InName(pat, name) ==
  \E k \in 1..Len(name) :
    /\ k + Len(pat) - 1 <= Len(name)
    /\ SubSeq(name, k, k + Len(pat) - 1) = pat

\* `"_A_B" in name`: the same, with an underscore (a token) before it
InNameU(pat, name) ==
  \E k \in 2..Len(name) :
    /\ k + Len(pat) - 1 <= Len(name)
    /\ SubSeq(name, k, k + Len(pat) - 1) = pat

\* ------------------------------------------------------------------ writers
\* write_docx_simple: the path written, .rtf when python-docx is missing
write_docx_simple(path, docx_ok) ==
  IF docx_ok THEN path ELSE with_suffix(path, "rtf")

\* write_pdf_simple: the path written, a docx (or rtf) when reportlab is missing
write_pdf_simple(path, docx_ok, pdf_ok) ==
  IF pdf_ok THEN path ELSE write_docx_simple(with_suffix(path, "docx"), docx_ok)

\* the payload run_auto builds when demo_mode is off (one role, two bullets),
\* without its title; contact and summary as their tokens
payload ==
  [ contact |-> <<"email", "|", "phone", "|", "city,", "state">>,
    summary |-> << "Professional contributor with measurable outcomes; clear,",
                   "Applicant Tracking System", "(", "ATS", ")-safe structure." >>,
    skills |-> << "Stakeholder Management", "Customer Success", "Process Improvement",
                  "Data-Driven Decisions" >>,
    experience |->
      << [ company |-> "Most Recent Company",
           title |-> "Most Recent Title",
           dates |-> "2019-Present",
           bullets |-> << "Led adoption program across 25 accounts; improved renewal rate by 14%.",
                          "Partnered cross-functionally to reduce churn and drive expansion." >> ] >>,
    licenses |-> << >>,
    education |-> "B.A., University Name" ]

\* make_cover_letter: its parameter `tone` (a str, "warm" by default and at
\* the only call site) shadows the module's ToneKit instance, so the final
\* tone.expand_once(...) raises AttributeError on every call with a str tone
ToneNames == {"warm", "professional", "direct"}

make_cover_letter(tone) ==
  IF tone \in ToneNames THEN "AttributeError" ELSE "cover_text"

\* generate_for_style, lines 517-576, for a cover letter that was made: the
\* list the function builds and returns (files), the files its writers leave
\* on disk (written) and the writer invocations (nwrites)
style_artifacts(outdir, style_key, person, company, title, docx_ok, pdf_ok) ==
  LET base == base_name(person.first, person.last, company, title, style_key, TODAY)
      resume_path == Path(outdir, base, <<"RESUME">>, "docx")
      resume_written == write_docx_simple(resume_path, docx_ok)
      v_path == Path(outdir, base, <<"RESUME", "VARIANT", "B">>, "docx")
      variant_files ==
        IF /\ V11.ab_bullet_variant
           /\ Len(payload.experience) > 0
           /\ Len(payload.experience[1].bullets) > 0
          THEN <<v_path>> ELSE <<>>
      cover_path == Path(outdir, base, <<"COVER">>, "docx")
      rr_path == Path(outdir, base, <<"RUN", "REPORT">>, "pdf")
      red_path == Path(outdir, base, <<"REDLINE">>, "pdf")
      ig_path == Path(outdir, base, <<"INTERVIEW", "GUIDE">>, "pdf")
      combo_path == Path(outdir, base, <<"COMBINED">>, "docx")
      ats_path == Path(outdir, base, <<"ATS">>, "docx")
      federal == style_key = "federal" /\ V11.federal_gate
      chk == Path(outdir, base, <<"USAJOBS", "CHECKLIST">>, "pdf")
  IN  [ written |->
          {resume_written}
            \cup {write_docx_simple(variant_files[k], docx_ok) : k \in 1..Len(variant_files)}
            \cup { write_docx_simple(cover_path, docx_ok),
                   write_pdf_simple(rr_path, docx_ok, pdf_ok),
                   write_pdf_simple(red_path, docx_ok, pdf_ok),
                   write_pdf_simple(ig_path, docx_ok, pdf_ok),
                   write_docx_simple(combo_path, docx_ok),
                   write_docx_simple(ats_path, docx_ok) }
            \cup (IF federal THEN {write_pdf_simple(chk, docx_ok, pdf_ok)} ELSE {}),
        files |->
          <<resume_written, cover_path, combo_path, ig_path, rr_path, red_path, ats_path>>
            \o variant_files \o (IF federal THEN <<chk>> ELSE <<>>),
        nwrites |-> 7 + Len(variant_files) + (IF federal THEN 1 ELSE 0) ]

\* generate_for_style: what one call writes and returns.
\*   raised  : the call ends with an exception
\*   written : the files it leaves on disk
\*   files   : the list it returns
\*   nwrites : the writer invocations it made
\* The resume and its variant B are written before make_cover_letter is called.
generate_for_style(outdir, style_key, person, company, title, docx_ok, pdf_ok) ==
  LET base == base_name(person.first, person.last, company, title, style_key, TODAY)
      resume_written == write_docx_simple(Path(outdir, base, <<"RESUME">>, "docx"), docx_ok)
      v_path == Path(outdir, base, <<"RESUME", "VARIANT", "B">>, "docx")
      variant_files ==
        IF /\ V11.ab_bullet_variant
           /\ Len(payload.experience) > 0
           /\ Len(payload.experience[1].bullets) > 0
          THEN <<v_path>> ELSE <<>>
      cover_text == make_cover_letter("warm")
      a == style_artifacts(outdir, style_key, person, company, title, docx_ok, pdf_ok)
  IN  IF cover_text = "AttributeError"
        THEN [ raised |-> TRUE,
               written |->
                 {resume_written}
                   \cup {write_docx_simple(variant_files[k], docx_ok) : k \in 1..Len(variant_files)},
               files |-> <<>>,
               nwrites |-> 1 + Len(variant_files) ]
        ELSE [ raised |-> FALSE, written |-> a.written, files |-> a.files,
               nwrites |-> a.nwrites ]

\* ------------------------------------------------------------------- bundle
Buckets == {"Resume", "Cover", "Guides", "Reports", "Federal"}

\* run_auto, lines 632-637: the bucket a file name falls in ("none": no branch)
bucket_of(name) ==
  IF InNameU(<<"RESUME">>, name) /\ ~InName(<<"VARIANT">>, name) THEN "Resume"
  ELSE IF InName(<<"VARIANT", "B">>, name) THEN "Resume"
  ELSE IF InNameU(<<"COVER">>, name) \/ InNameU(<<"COMBINED">>, name) THEN "Cover"
  ELSE IF InName(<<"INTERVIEW", "GUIDE">>, name) THEN "Guides"
  ELSE IF InName(<<"RUN", "REPORT">>, name) \/ InName(<<"REDLINE">>, name) THEN "Reports"
  ELSE IF InName(<<"USAJOBS", "CHECKLIST">>, name) THEN "Federal"
  ELSE "none"

\* run_auto, lines 629-637: the files of each bucket, in list order
classify(all_files) ==
  [b \in Buckets |-> SelectSeq(all_files, LAMBDA f : bucket_of(f.name) = b)]

\* zip_with_folders: the archive members, <bucket>/<file name> for the files
\* of the buckets that exist on disk, and the README
README == [bucket |-> "", file |-> "README_first.rtf"]

zip_with_folders(files_by_bucket, on_disk) ==
  {README} \cup
  UNION { { [bucket |-> b, file |-> files_by_bucket[b][k]] :
              k \in {j \in 1..Len(files_by_bucket[b]) : files_by_bucket[b][j] \in on_disk} } :
          b \in DOMAIN files_by_bucket }

\* -------------------------------------------------------------------- state
VARIABLES
  DOCX_OK,      \* python-docx could be imported
  PDF_OK,       \* reportlab could be imported
  cache,        \* CACHE_DIR: signature -> the time written in <sig>.done
  memory,       \* MEMO_FILE: the content of memory.json
  dirs,         \* the output directories that exist
  disk,         \* the files that exist in the output directories
  zips,         \* the members of each archive written: zip path -> members
  now,          \* time.time() at its last reading
  nrecords,     \* direct calls of mark_built made so far
  exists_result,\* what the last direct call of already_built returned
  started,      \* calls of run_auto made so far
  pc,           \* per call: where it is in run_auto
  inp,          \* per call: its arguments
  idx,          \* per call: the position of `for s in styles`
  all_files,    \* per call: all_files
  ret,          \* per call: what it returned or raised
  phases,       \* per call: the phases it went through
  attempted,    \* per call: the style keys generate_for_style was called with
  nwrites,      \* per call: writer and packager invocations
  nmarks,       \* per call: calls of mark_built
  effects,      \* per call: the persisted state it changed
  prev,         \* per call: the call that ended right before it started (0: none)
  bundle,       \* the bundle step taken alone: its input and what it computed
  call          \* a function called alone: its arguments, and what it returned

vars ==
  << DOCX_OK, PDF_OK, cache, memory, dirs, disk, zips, now, nrecords, exists_result,
     started, pc, inp, idx, all_files, ret, phases, attempted, nwrites, nmarks,
     effects, prev, bundle, call >>

envVars == <<DOCX_OK, PDF_OK>>
storeVars == <<cache, memory, dirs, disk, zips>>
runVars == <<started, pc, inp, idx, all_files, ret, phases, attempted, nwrites, nmarks, effects, prev>>

Ended == {"SkippedIdempotent", "Done", "Raised"}

\* the module is imported: SESSION_DIR and CACHE_DIR exist and are empty, no
\* call has been made
InitStores ==
  /\ DOCX_OK \in BOOLEAN
  /\ PDF_OK \in BOOLEAN
  /\ cache = << >>
  /\ memory = NoMemory
  /\ dirs = {}
  /\ disk = {}
  /\ zips = << >>
  /\ now = 0
  /\ nrecords = 0
  /\ exists_result = FALSE
  /\ started = 0
  /\ pc = [r \in Runs |-> "idle"]
  /\ inp = [r \in Runs |-> NoInput]
  /\ idx = [r \in Runs |-> 0]
  /\ all_files = [r \in Runs |-> <<>>]
  /\ ret = [r \in Runs |-> "none"]
  /\ phases = [r \in Runs |-> <<>>]
  /\ attempted = [r \in Runs |-> <<>>]
  /\ nwrites = [r \in Runs |-> 0]
  /\ nmarks = [r \in Runs |-> 0]
  /\ effects = [r \in Runs |-> {}]
  /\ prev = [r \in Runs |-> 0]

NoCall == [fn |-> "none"]

Init ==
  /\ InitStores
  /\ bundle = [stage |-> "off"]
  /\ call = NoCall

\* ------------------------------------------------------------------ actions
\* a caller of the module calls mark_built(s) when the clock reads t
MarkBuiltStep(s, t) ==
  /\ nrecords' = nrecords + 1
  /\ t >= now
  /\ now' = t
  /\ cache' = mark_built(cache, s, t)
  /\ UNCHANGED <<call, bundle, envVars, memory, dirs, disk, zips, exists_result, runVars>>

MarkBuiltCall(s, t) ==
  /\ nrecords < MaxRecordCalls
  /\ MarkBuiltStep(s, t)

\* a caller of the module calls already_built(s)
AlreadyBuiltCall(s) ==
  /\ exists_result' = already_built(cache, s)
  /\ UNCHANGED <<call, bundle, envVars, storeVars, now, nrecords, runVars>>

\* run_auto, lines 580-583: mkdir of the output directory, remember_style
RunAutoStart(r, in) ==
  /\ r = started + 1
  /\ pc[r] = "idle"
  /\ started' = r
  /\ inp' = [inp EXCEPT ![r] = in]
  /\ dirs' = dirs \cup {in.outdir}
  /\ memory' = remember_style(memory, Selection(in.styles))
  /\ effects' = [effects EXCEPT ![r] =
                   (IF in.outdir \in dirs THEN {} ELSE {"outdir"})
                     \cup (IF memory' = memory THEN {} ELSE {"memory"})]
  /\ prev' = [prev EXCEPT ![r] = IF r > 1 /\ pc[r - 1] \in Ended THEN r - 1 ELSE 0]
  /\ phases' = [phases EXCEPT ![r] = <<"Start">>]
  /\ pc' = [pc EXCEPT ![r] = "CacheCheck"]
  /\ UNCHANGED <<call, bundle, envVars, cache, disk, zips, now, nrecords, exists_result,
                 idx, all_files, ret, attempted, nwrites, nmarks>>

\* run_auto, lines 584-588: the signature is cached, return []
RunAutoCacheHit(r) ==
  /\ pc[r] = "CacheCheck"
  /\ RunSignature(inp[r]) # NoSig /\ already_built(cache, RunSignature(inp[r]))
  /\ pc' = [pc EXCEPT ![r] = "SkippedIdempotent"]
  /\ ret' = [ret EXCEPT ![r] = <<>>]
  /\ phases' = [phases EXCEPT ![r] = @ \o <<"CacheCheck", "SkippedIdempotent", "Done">>]
  /\ UNCHANGED <<call, bundle, envVars, storeVars, now, nrecords, exists_result, started, inp, idx,
                 all_files, attempted, nwrites, nmarks, effects, prev>>

\* run_auto, lines 584-623: the signature is not cached, enter the loop
RunAutoCacheMiss(r) ==
  /\ pc[r] = "CacheCheck"
  /\ ~(RunSignature(inp[r]) # NoSig /\ already_built(cache, RunSignature(inp[r])))
  /\ pc' = [pc EXCEPT ![r] = "PerStyleLoop"]
  /\ idx' = [idx EXCEPT ![r] = 1]
  /\ all_files' = [all_files EXCEPT ![r] = <<>>]
  /\ phases' = [phases EXCEPT ![r] = @ \o <<"CacheCheck", "PerStyleLoop">>]
  /\ UNCHANGED <<call, bundle, envVars, storeVars, now, nrecords, exists_result, started, inp,
                 ret, attempted, nwrites, nmarks, effects, prev>>

\* run_auto, lines 624-625: one iteration of `for s in styles`; an exception
\* of generate_for_style is not caught and ends the call
RunAutoGenerate(r) ==
  /\ pc[r] = "PerStyleLoop"
  /\ idx[r] <= Len(inp[r].styles)
  /\ LET in == inp[r]
         s == in.styles[idx[r]]
         g == generate_for_style(in.outdir, s, in.person, in.company, in.title, DOCX_OK, PDF_OK)
     IN  /\ disk' = disk \cup g.written
         /\ attempted' = [attempted EXCEPT ![r] = Append(@, s)]
         /\ nwrites' = [nwrites EXCEPT ![r] = @ + g.nwrites]
         /\ effects' = [effects EXCEPT ![r] = @ \cup (IF g.written = {} THEN {} ELSE {"artifact"})]
         /\ IF g.raised
              THEN /\ pc' = [pc EXCEPT ![r] = "Raised"]
                   /\ ret' = [ret EXCEPT ![r] = "AttributeError"]
                   /\ UNCHANGED <<idx, all_files>>
              ELSE /\ all_files' = [all_files EXCEPT ![r] = @ \o g.files]
                   /\ idx' = [idx EXCEPT ![r] = @ + 1]
                   /\ UNCHANGED <<pc, ret>>
  /\ UNCHANGED <<call, bundle, envVars, cache, memory, dirs, zips, now, nrecords, exists_result,
                 started, inp, phases, nmarks, prev>>

\* run_auto, lines 627-649: the loop is over; classify, name the archive after
\* styles[0] (IndexError on an empty list), write it, mark_built, return
RunAutoBundle(r, t) ==
  /\ pc[r] = "PerStyleLoop"
  /\ idx[r] > Len(inp[r].styles)
  /\ t >= now
  /\ LET in == inp[r]
         buckets == classify(all_files[r])
     IN  IF in.styles = <<>>
           THEN /\ pc' = [pc EXCEPT ![r] = "Raised"]
                /\ ret' = [ret EXCEPT ![r] = "IndexError"]
                /\ phases' = [phases EXCEPT ![r] = Append(@, "Bundle")]
                /\ UNCHANGED <<cache, disk, zips, now, nwrites, nmarks, effects>>
           ELSE LET base == base_name(in.person.first, in.person.last, in.company,
                                      in.title, in.styles[1], TODAY)
                    zip_path == Path(in.outdir, base, <<"DELIVERABLES">>, "zip")
                    members ==
                      IF V11.zip_layout_mobile
                        THEN zip_with_folders(buckets, disk)
                        ELSE { [bucket |-> "", file |-> f] : f \in Range(all_files[r]) \cap disk }
                    s == RunSignature(in)
                    record == V11.idempotent_runs /\ s # NoSig
                IN  /\ disk' = disk \cup {zip_path}
                    /\ zips' = [z \in (DOMAIN zips) \cup {zip_path} |->
                                  IF z = zip_path THEN members ELSE zips[z]]
                    /\ cache' = IF record THEN mark_built(cache, s, t) ELSE cache
                    /\ now' = IF record THEN t ELSE now
                    /\ nmarks' = [nmarks EXCEPT ![r] = @ + (IF record THEN 1 ELSE 0)]
                    /\ nwrites' = [nwrites EXCEPT ![r] = @ + 1]
                    /\ effects' = [effects EXCEPT ![r] =
                                     @ \cup {"artifact"} \cup (IF cache' = cache THEN {} ELSE {"cache"})]
                    /\ ret' = [ret EXCEPT ![r] = all_files[r] \o <<zip_path>>]
                    /\ phases' = [phases EXCEPT ![r] = @ \o <<"Bundle", "Done">>]
                    /\ pc' = [pc EXCEPT ![r] = "Done"]
  /\ UNCHANGED <<call, bundle, envVars, memory, dirs, nrecords, exists_result, started, inp,
                 idx, all_files, attempted, prev>>

Next ==
  \/ \E s \in Sigs, t \in 0..MaxClock : MarkBuiltCall(s, t)
  \/ \E s \in Sigs : AlreadyBuiltCall(s)
  \/ \E r \in Runs, in \in RunInputs : RunAutoStart(r, in)
  \/ \E r \in Runs : RunAutoCacheHit(r)
  \/ \E r \in Runs : RunAutoCacheMiss(r)
  \/ \E r \in Runs : RunAutoGenerate(r)
  \/ \E r \in Runs, t \in 0..MaxClock : RunAutoBundle(r, t)

Spec == Init /\ [][Next]_vars

\* ------------------------------------------------- the build cache, alone
\* a caller that only uses the cache: mark_built and already_built calls
CacheRecord(s, t) ==
  /\ nrecords < MaxCacheCalls
  /\ MarkBuiltStep(s, t)

NextCache ==
  \/ \E s \in Sigs, t \in 0..MaxClock : CacheRecord(s, t)
  \/ \E s \in Sigs : AlreadyBuiltCall(s)

SpecCache == Init /\ [][NextCache]_vars

\* ------------------------------------------------- the bundle step, alone
\* run_auto, lines 623-642, applied to the lists generate_for_style builds
\* (lines 566-576) for each list of requested styles
notBundle ==
  << DOCX_OK, PDF_OK, cache, memory, dirs, disk, zips, now, nrecords, exists_result,
     started, pc, inp, idx, all_files, ret, phases, attempted, nwrites, nmarks,
     effects, prev, call >>

InitBundle ==
  /\ InitStores
  /\ call = NoCall
  /\ \E in \in RunInputs :
       /\ in.styles # <<>>
       /\ bundle = [stage |-> "input", in |-> in]

\* run_auto, lines 623-625: all_files, and the files the writers left on disk
BundleFiles ==
  /\ bundle.stage = "input"
  /\ LET in == bundle.in
         art(k) == style_artifacts(in.outdir, in.styles[k], in.person, in.company,
                                   in.title, DOCX_OK, PDF_OK)
         upto[k \in 0..Len(in.styles)] ==
           IF k = 0 THEN <<>> ELSE upto[k - 1] \o art(k).files
     IN  bundle' = [ stage |-> "files", in |-> in,
                     all_files |-> upto[Len(in.styles)],
                     on_disk |-> UNION {art(k).written : k \in 1..Len(in.styles)} ]
  /\ UNCHANGED notBundle

\* run_auto, lines 629-637
BundleClassify ==
  /\ bundle.stage = "files"
  /\ bundle' = [ stage |-> "classified", in |-> bundle.in, all_files |-> bundle.all_files,
                 on_disk |-> bundle.on_disk, buckets |-> classify(bundle.all_files) ]
  /\ UNCHANGED notBundle

\* run_auto, lines 639-642
BundleZip ==
  /\ bundle.stage = "classified"
  /\ bundle' = [ stage |-> "zipped", in |-> bundle.in, all_files |-> bundle.all_files,
                 on_disk |-> bundle.on_disk, buckets |-> bundle.buckets,
                 members |-> zip_with_folders(bundle.buckets, bundle.on_disk) ]
  /\ UNCHANGED notBundle

NextBundle ==
  \/ BundleFiles
  \/ BundleClassify
  \/ BundleZip

SpecBundle == InitBundle /\ [][NextBundle]_vars

\* ------------------------------------------------------------------ scoring
\* every variable but call
notCall ==
  << DOCX_OK, PDF_OK, cache, memory, dirs, disk, zips, now, nrecords, exists_result,
     started, pc, inp, idx, all_files, ret, phases, attempted, nwrites, nmarks,
     effects, prev, bundle >>

ACTION_VERBS ==
  { "led", "owned", "built", "delivered", "implemented", "spearheaded", "optimized",
    "designed", "launched", "scaled", "improved", "reduced", "increased", "managed",
    "developed", "drove", "partnered" }

\* a text is a sequence of whitespace-separated tokens of this vocabulary: a
\* capitalised action verb, a plain word, a one-letter word, a percentage and
\* a URL
Vocabulary == {"Led", "docs", "a", "14%", "https://a.io"}

Texts == UNION {[1..n -> Vocabulary] : n \in 0..MaxTextLen}

\* re.findall(r"[A-Za-z]{2,}", tok.lower()): the words of one token
token_words(tok) ==
  CASE tok = "Led" -> <<"led">>
    [] tok = "docs" -> <<"docs">>
    [] tok = "a" -> <<>>
    [] tok = "14%" -> <<>>
    [] tok = "https://a.io" -> <<"https", "io">>
    [] tok = "The" -> <<"the">>
    [] tok = "led" -> <<"led">>
    [] tok \in {"@", "\\d", "[CONFIRM]%"} -> IF tok = "[CONFIRM]%" THEN <<"confirm">> ELSE <<>>
    [] tok = "[CONFIRM]-Present" -> <<"confirm", "present">>
    [] tok = "Core:" -> <<"core">>
    [] tok = "Focus:" -> <<"focus">>
    [] tok = "Education:" -> <<"education">>
    [] tok = "Education" -> <<"education">>
    [] tok = "upon" -> <<"upon">>
    [] tok = "request" -> <<"request">>
    [] tok = "Title" -> <<"title">>
    [] tok = "Company" -> <<"company">>
    [] tok = "Owned" -> <<"owned">>
    [] tok = "Grew" -> <<"grew">>
    [] tok = "Improved" -> <<"improved">>
    [] tok = "adoption" -> <<"adoption">>
    [] tok = "by" -> <<"by">>
    [] tok = "and" -> <<"and">>
    [] tok = "renewal" -> <<"renewal">>
    [] tok = "rate" -> <<"rate">>
    [] tok = "across" -> <<"across">>
    [] tok = "assigned" -> <<"assigned">>
    [] tok = "accounts." -> <<"accounts">>
    [] tok = "Advanced" -> <<"advanced">>
    [] tok = "initiatives" -> <<"initiatives">>
    [] tok = "aligned" -> <<"aligned">>
    [] tok = "to" -> <<"to">>
    [] tok = "role" -> <<"role">>
    [] tok = "requirements." -> <<"requirements">>
    [] tok \in {"sql", "Sql"} -> <<"sql">>
    [] tok \in {"python", "Python"} -> <<"python">>
    [] tok \in {"aws", "Aws"} -> <<"aws">>
    [] tok \in {"git", "Git"} -> <<"git">>
    [] tok = "Docs" -> <<"docs">>
    [] tok = "team" -> <<"team">>
    [] tok = "\\nCore:" -> <<"ncore">>
    [] tok = "\\nTitle" -> <<"ntitle">>
    [] tok = "\\nEducation:" -> <<"neducation">>

\* the matches of the number pattern of ats_score in one token
token_nums(tok) == IF tok = "14%" THEN 1 ELSE 0

\* the matches of https?://\S+ in one token
token_urls(tok) == IF tok = "https://a.io" THEN 1 ELSE 0

\* clean_tokens: the lower-cased words of two letters or more, in text order
clean_tokens(text) ==
  LET w[k \in 0..Len(text)] == IF k = 0 THEN <<>> ELSE w[k - 1] \o token_words(text[k])
  IN  w[Len(text)]

\* kw_set: the first topn distinct words, as a set
kw_set(text, topn) ==
  LET toks == clean_tokens(text)
      out[k \in 0..Len(toks)] ==
        IF k = 0 THEN <<>>
        ELSE IF toks[k] \in {out[k - 1][j] : j \in 1..Len(out[k - 1])}
               THEN out[k - 1] ELSE Append(out[k - 1], toks[k])
      all == out[Len(toks)]
  IN  {all[j] : j \in 1..(IF Len(all) < topn THEN Len(all) ELSE topn)}

\* num / den rounded to the nearest integer, a tie upwards
round_half_up(num, den) == (2 * num + den) \div (2 * den)

\* round(num / den) of Python 3 for an exactly computed quotient: to the
\* nearest integer, a tie to the even one
round_half_even(num, den) ==
  LET q == num \div den
      r2 == 2 * (num % den)
  IN  IF r2 > den THEN q + 1
      ELSE IF r2 < den THEN q
      ELSE IF q % 2 = 0 THEN q ELSE q + 1

Min(a, b) == IF a < b THEN a ELSE b

\* the (vcount, nums, urls) whose raw*100 is a tie in exact arithmetic and
\* falls just below it, or just above it, in IEEE double arithmetic
FloatBelowTie ==
  { <<0, 11, 0>>, <<3, 5, 1>>, <<3, 9, 1>>, <<6, 11, 2>>, <<9, 5, 3>>, <<12, 7, 1>>,
    <<15, 9, 2>> }

FloatAboveTie == { <<9, 7, 0>> }

\* ats_score, from its three counts:
\* int(round(100 * (0.5*min(1, v/18) + 0.3*min(1, n/12) + 0.2*min(1, u/3))))
ats_of_counts(vcount, nums, urls) ==
  LET v == Min(vcount, 18)
      n == Min(nums, 12)
      u == Min(urls, 3)
      x36 == 100 * v + 90 * n + 240 * u
  IN  IF <<v, n, u>> \in FloatBelowTie THEN x36 \div 36
      ELSE IF <<v, n, u>> \in FloatAboveTie THEN (x36 \div 36) + 1
      ELSE round_half_even(x36, 36)

\* ats_score: the action verbs present as whole words, the number matches and
\* the URL matches of the text
ats_score(tx) ==
  LET words == {clean_tokens(tx)[k] : k \in 1..Len(clean_tokens(tx))}
      vcount == Cardinality({v \in ACTION_VERBS : v \in words})
      cnt[k \in 0..Len(tx)] ==
        IF k = 0 THEN [nums |-> 0, urls |-> 0]
        ELSE [nums |-> cnt[k - 1].nums + token_nums(tx[k]),
              urls |-> cnt[k - 1].urls + token_urls(tx[k])]
  IN  ats_of_counts(vcount, cnt[Len(tx)].nums, cnt[Len(tx)].urls)

\* coverage with the division left out
coverage_undivided(jks, tks) == 100 * Cardinality(jks \cap tks)

\* coverage divided by the size of the candidate's keyword set
coverage_by_candidate(jks, tks) ==
  LET m == IF Cardinality(tks) > 1 THEN Cardinality(tks) ELSE 1
  IN  round_half_even(100 * Cardinality(jks \cap tks), m)

\* coverage that counts an empty job keyword set as fully covered
coverage_empty_full(jks, tks) ==
  IF jks = {} THEN 100
  ELSE round_half_even(100 * Cardinality(jks \cap tks), Cardinality(jks))

\* letter_grade with exclusive lower bounds
letter_grade_exclusive(x) ==
  IF x > 97 THEN "A+" ELSE IF x > 93 THEN "A" ELSE IF x > 90 THEN "A-"
  ELSE IF x > 87 THEN "B+" ELSE IF x > 83 THEN "B" ELSE IF x > 80 THEN "B-"
  ELSE IF x > 77 THEN "C+" ELSE IF x > 73 THEN "C" ELSE IF x > 70 THEN "C-"
  ELSE IF x > 60 THEN "D" ELSE "F"

\* composite_scores, line 220: cov
coverage(jks, tks) ==
  LET m == IF Cardinality(jks) > 1 THEN Cardinality(jks) ELSE 1
  IN  round_half_even(100 * Cardinality(jks \cap tks), m)

\* composite_scores, line 223 (letter_grade in the final_fat build)
letter_grade(x) ==
  IF x >= 97 THEN "A+" ELSE IF x >= 93 THEN "A" ELSE IF x >= 90 THEN "A-"
  ELSE IF x >= 87 THEN "B+" ELSE IF x >= 83 THEN "B" ELSE IF x >= 80 THEN "B-"
  ELSE IF x >= 77 THEN "C+" ELSE IF x >= 73 THEN "C" ELSE IF x >= 70 THEN "C-"
  ELSE IF x >= 60 THEN "D" ELSE "F"

\* hire rounded half up
hire_half_up(cov, ats) == round_half_up(cov + ats, 2)

\* composite_scores, line 222: int(round(0.5*cov + 0.5*ats)); the sum is exact
hire(cov, ats) == round_half_even(cov + ats, 2)

\* composite_scores, lines 222-224: the score set of a coverage and a scan score
score_set(cov, ats) ==
  [match |-> cov, scan |-> ats, hire |-> hire(cov, ats),
   grade |-> letter_grade(hire(cov, ats))]

\* composite_scores
composite_scores(jd, txt) ==
  score_set(coverage(kw_set(jd, 400), kw_set(txt, 400)), ats_score(txt))

\* a caller calls composite_scores(jd, txt) on two texts, or ats_score on a
\* text given by its counts of action verbs, number matches and URL matches
InitScore ==
  /\ InitStores
  /\ bundle = [stage |-> "off"]
  /\ \/ \E jd \in Texts, txt \in Texts :
          call = [fn |-> "composite_scores", stage |-> "called", jd |-> jd, txt |-> txt]
     \/ \E v \in 0..Cardinality(ACTION_VERBS), n \in 0..MaxNums, u \in 0..MaxUrls :
          call = [fn |-> "ats_score", stage |-> "called", vcount |-> v, nums |-> n, urls |-> u]

ScoreReturn ==
  /\ call.fn = "composite_scores" /\ call.stage = "called"
  /\ call' = [call EXCEPT !.stage = "returned"] @@ [result |-> composite_scores(call.jd, call.txt)]
  /\ UNCHANGED notCall

AtsReturn ==
  /\ call.fn = "ats_score" /\ call.stage = "called"
  /\ call' = [call EXCEPT !.stage = "returned"]
               @@ [result |-> ats_of_counts(call.vcount, call.nums, call.urls)]
  /\ UNCHANGED notCall

NextScore ==
  \/ ScoreReturn
  \/ AtsReturn

SpecScore == InitScore /\ [][NextScore]_vars

\* the last lines of composite_scores on every pair of component scores
InitScoreSet ==
  /\ InitStores
  /\ bundle = [stage |-> "off"]
  /\ \E cov \in 0..MaxScore, ats \in 0..MaxScore :
       call = [fn |-> "score_set", stage |-> "called", cov |-> cov, ats |-> ats]

ScoreSetReturn ==
  /\ call.fn = "score_set" /\ call.stage = "called"
  /\ call' = [call EXCEPT !.stage = "returned"] @@ [result |-> score_set(call.cov, call.ats)]
  /\ UNCHANGED notCall

NextScoreSet == ScoreSetReturn

SpecScoreSet == InitScoreSet /\ [][NextScoreSet]_vars

\* ---------------------------------------------------------- bullet helpers
\* a line is a sequence of characters: a letter in both cases and the blank
Chars == {"a", "A", " "}

Lines == UNION {[1..n -> Chars] : n \in 0..MaxLineLen}

BulletLists == UNION {[1..n -> Lines] : n \in 0..MaxBullets}

\* str.strip(): without its leading and trailing blanks
strip(b) ==
  LET nonblank == {k \in 1..Len(b) : b[k] # " "}
  IN  IF nonblank = {} THEN <<>>
      ELSE SubSeq(b, CHOOSE k \in nonblank : \A j \in nonblank : k <= j,
                     CHOOSE k \in nonblank : \A j \in nonblank : k >= j)

\* re.sub(r"\s+", " ", b): every run of blanks becomes one blank
collapse(b) ==
  LET c[k \in 0..Len(b)] ==
        IF k = 0 THEN <<>>
        ELSE IF b[k] = " " /\ k > 1 /\ b[k - 1] = " " THEN c[k - 1]
        ELSE Append(c[k - 1], b[k])
  IN  c[Len(b)]

\* str.lower()
lower(t) == [k \in 1..Len(t) |-> IF t[k] = "A" THEN "a" ELSE t[k]]

\* t[:n]
slice(t, n) == SubSeq(t, 1, Min(Len(t), n))

\* tighten_bullets: the loop keeps the lower-cased keys seen and the cleaned
\* list, and stops once the list has max_per_role entries (tested after the
\* append); an entry is cut to its first SliceLen characters after its key
\* was taken
tighten_bullets(bullets, max_per_role) ==
  IF ~V11.dedup_tighten THEN bullets
  ELSE
    LET st[k \in 0..Len(bullets)] ==
          IF k = 0 THEN [seen |-> {}, cleaned |-> <<>>, stop |-> FALSE]
          ELSE LET p == st[k - 1]
                   t == collapse(strip(bullets[k]))
                   key == lower(t)
               IN  IF p.stop \/ t = <<>> \/ key \in p.seen THEN p
                   ELSE [ seen |-> p.seen \cup {key},
                          cleaned |-> Append(p.cleaned, slice(t, SliceLen)),
                          stop |-> Len(p.cleaned) + 1 >= max_per_role ]
    IN  st[Len(bullets)].cleaned

\* a caller calls tighten_bullets(bullets, n)
InitTighten ==
  /\ InitStores
  /\ bundle = [stage |-> "off"]
  /\ \E bullets \in BulletLists, n \in 0..MaxCap :
       call = [fn |-> "tighten_bullets", stage |-> "called", bullets |-> bullets, n |-> n]

TightenReturn ==
  /\ call.fn = "tighten_bullets" /\ call.stage = "called"
  /\ call' = [call EXCEPT !.stage = "returned"]
               @@ [result |-> tighten_bullets(call.bullets, call.n)]
  /\ UNCHANGED notCall

\* the caller passes the result to tighten_bullets again, with the same cap
TightenAgain ==
  /\ call.fn = "tighten_bullets" /\ call.stage = "returned"
  /\ call' = [call EXCEPT !.stage = "again"]
               @@ [again |-> tighten_bullets(call.result, call.n)]
  /\ UNCHANGED notCall

NextTighten ==
  \/ TightenReturn
  \/ TightenAgain

SpecTighten == InitTighten /\ [][NextTighten]_vars

\* ------------------------------------------------------------ resume text
\* ToneKit.expand_once: the acronyms and their expansions
AcronymPairs ==
  [ ATS |-> "Applicant Tracking System", KPI |-> "Key Performance Indicator",
    API |-> "Application Programming Interface", CV |-> "Curriculum Vitae",
    GS |-> "General Schedule", KSA |-> "Knowledge, Skills, and Abilities",
    EMR |-> "Electronic Medical Record", EHR |-> "Electronic Health Record" ]

\* the acronyms among the tokens of a line
acronyms_of(line) == {line[k] : k \in 1..Len(line)} \cap DOMAIN AcronymPairs

\* ToneKit.expand_once on one line (its tokens), with self._seen_acros = seen:
\* an acronym not seen before, in an earlier call or earlier in the line,
\* becomes "<expansion> (<acronym>)" and is added to the set; one seen before
\* is left as it is.  The text is given token by token.
expand_once(seen, line) ==
  [ seen |-> seen \cup acronyms_of(line),
    text |->
      [k \in 1..Len(line) |->
         IF /\ line[k] \in DOMAIN AcronymPairs
            /\ line[k] \notin seen
            /\ \A j \in 1..(k - 1) : line[j] # line[k]
           THEN <<AcronymPairs[line[k]], "(", line[k], ")">>
           ELSE <<line[k]>>] ]

\* mask_contact: a phone number or a street address among the tokens is hidden
mask_contact(contact) ==
  IF ~V11.safe_share_default THEN contact
  ELSE [k \in 1..Len(contact) |->
          IF contact[k] = "555-123-4567" THEN "[phone hidden]"
          ELSE IF contact[k] = "12 Main St" THEN "[street hidden]"
          ELSE contact[k]]

\* the style keys, STYLE_ORDER
STYLE_ORDER ==
  <<"classic", "hybrid", "tech_ic", "executive", "healthcare", "federal", "academic_cv">>

\* run_auto, lines 607-621: the payload of a run
run_payload(title) == [title |-> title] @@ payload

\* compose_resume_text, lines 436-442: the header of each role, its bullets
\* and an empty line
RECURSIVE role_lines(_)
role_lines(experience) ==
  IF experience = <<>> THEN <<>>
  ELSE LET j == Head(experience)
       IN  << <<j.title, "-", j.company, "(", j.dates, ")">> >>
             \o [k \in 1..Len(j.bullets) |-> <<"*", j.bullets[k]>>]
             \o <<<<>>>>
             \o role_lines(Tail(experience))

\* compose_resume_text, lines 421-446: the lines before the acronyms are
\* expanded, each as its tokens; tighten_bullets leaves the bullets of
\* run_payload as they are (two distinct, normalised, short lines)
resume_lines(style, person, pl) ==
  LET head ==
        << <<person.first, person.last, "-", pl.title>>, mask_contact(pl.contact), <<>>,
           pl.summary, <<>> >>
      highlights_part ==
        IF style \in {"hybrid", "executive"} /\ "highlights" \in DOMAIN pl
          THEN <<<<"Highlights:">>>>
                 \o [k \in 1..Min(Len(pl.highlights), 5) |-> <<"*", pl.highlights[k]>>]
                 \o <<<<>>>>
          ELSE <<>>
      skills_part ==
        IF Len(pl.skills) > 0
          THEN << <<"Skills:">> \o SubSeq(pl.skills, 1, Min(Len(pl.skills), 18)), <<>> >>
          ELSE <<>>
      experience_part ==
        IF Len(pl.experience) > 0
          THEN <<<<"Experience:">>>> \o role_lines(pl.experience)
          ELSE <<>>
      licenses_part ==
        IF Len(pl.licenses) > 0
          THEN << <<"Licenses & Certifications:">> \o SubSeq(pl.licenses, 1, Min(Len(pl.licenses), 8)),
                  <<>> >>
          ELSE <<>>
      education_part == << <<"Education:", pl.education>>, <<>> >>
  IN  head \o highlights_part \o skills_part \o experience_part \o licenses_part \o education_part

\* compose_resume_text, line 447: each line passed through tone.expand_once,
\* in order; the lines and the set of acronyms the ToneKit has seen afterwards
expand_lines(raw, seen) ==
  LET before(k) == seen \cup UNION {acronyms_of(raw[j]) : j \in 1..(k - 1)}
  IN  [ seen |-> before(Len(raw) + 1),
        lines |-> [k \in 1..Len(raw) |-> expand_once(before(k), raw[k]).text] ]

\* compose_resume_text, called when the ToneKit has seen the acronyms of seen
compose_resume_text(style, person, pl, seen) ==
  expand_lines(resume_lines(style, person, pl), seen)

\* one process composes the resumes of a list of style keys, as
\* generate_for_style does for each style it is called with (lines 519, 529):
\* the resume, then its variant B
ComposeStyleLists == UNION {[1..n -> {STYLE_ORDER[k] : k \in 1..Len(STYLE_ORDER)}] : n \in 1..MaxStyles}

InitCompose ==
  /\ InitStores
  /\ bundle = [stage |-> "off"]
  /\ \E styles \in ComposeStyleLists, person \in Persons, title \in Titles :
       call = [ fn |-> "compose_resume_text", styles |-> styles, person |-> person,
                title |-> title, seen |-> {}, out |-> <<>> ]

ComposeStyle ==
  /\ call.fn = "compose_resume_text"
  /\ Len(call.out) < Len(call.styles)
  /\ LET style_key == call.styles[Len(call.out) + 1]
         run_pl == run_payload(call.title)
         a == compose_resume_text(style_key, call.person, run_pl, call.seen)
         b == compose_resume_text(style_key, call.person, run_pl, a.seen)
     IN  call' = [call EXCEPT !.seen = b.seen,
                              !.out = Append(@, [ style |-> style_key, resume |-> a.lines,
                                                  variant |-> b.lines ])]
  /\ UNCHANGED notCall

NextCompose == ComposeStyle

SpecCompose == InitCompose /\ [][NextCompose]_vars

\* ---------------------------------------------------------------- evidence
\* the concrete numbers (runs of digits, with their unit) written in a string
\* of the payload
numbers_in(str) ==
  CASE str = "Led adoption program across 25 accounts; improved renewal rate by 14%."
         -> {"25", "14%"}
    [] str = "2019-Present" -> {"2019"}
    [] OTHER -> {}

\* the concrete numbers of the roles of a payload: of their dates and bullets
payload_numbers(pl) ==
  UNION { numbers_in(pl.experience[k].dates)
            \cup UNION { numbers_in(pl.experience[k].bullets[j]) :
                           j \in 1..Len(pl.experience[k].bullets) } :
          k \in 1..Len(pl.experience) }

\* the concrete numbers written in a text
text_numbers(text) == {text[k] : k \in {j \in 1..Len(text) : token_nums(text[j]) > 0}}

\* run_auto, lines 590-621, taken alone: the payload it builds for a resume
\* text and a job text (demo_mode is off)
InitPayload ==
  /\ InitStores
  /\ bundle = [stage |-> "off"]
  /\ \E resume_text \in Texts, jd_text \in Texts, title \in Titles :
       call = [ fn |-> "run_auto.payload", stage |-> "called", resume_text |-> resume_text,
                jd_text |-> jd_text, title |-> title ]

BuildPayload ==
  /\ call.fn = "run_auto.payload" /\ call.stage = "called"
  /\ ~V11.demo_mode
  /\ call' = [call EXCEPT !.stage = "built"] @@ [payload |-> run_payload(call.title)]
  /\ UNCHANGED notCall

NextPayload == BuildPayload

SpecPayload == InitPayload /\ [][NextPayload]_vars

\* ------------------------------------------------------------ bullet order
\* achievement lines given to variant_b
VariantBullets == {"Cut cost 14%.", "Saved $5k", "Improved docs", "Delivered $2M", "Wrote docs"}

VariantLists == UNION {[1..n -> VariantBullets] : n \in 0..MaxVariantLen}

\* re.search(r"\b\d{1,3}%\b|\$\d", b): a percentage followed by a word
\* character, or a dollar sign followed by a digit ("14%." has neither)
has_metric(b) == b \in {"Saved $5k", "Delivered $2M"}

\* any(k in b.lower() for k in ["reduced", ..., "improved"])
has_outcome_verb(b) == b \in {"Improved docs", "Delivered $2M"}

\* the score variant_b gives a line
variant_score(b) == (IF has_metric(b) THEN 2 ELSE 0) + (IF has_outcome_verb(b) THEN 1 ELSE 0)

\* an order of the keys that puts equal scores latest first
key_before_latest_first(s1, i1, s2, i2) == s1 > s2 \/ (s1 = s2 /\ i1 > i2)

\* the order of the sort keys (-score, index) of two entries
key_before(s1, i1, s2, i2) == s1 > s2 \/ (s1 = s2 /\ i1 < i2)

\* variant_b: the lines sorted by (-score, index), as a new list
variant_b(bullets) ==
  LET n == Len(bullets)
      rank(k) == 1 + Cardinality({j \in 1..n :
                        key_before(variant_score(bullets[j]), j, variant_score(bullets[k]), k)})
  IN  IF bullets = <<>> THEN <<>>
      ELSE [i \in 1..n |-> bullets[CHOOSE k \in 1..n : rank(k) = i]]

\* a call of variant_b: arg is the value of the list when the call is made,
\* bullets is the list object the caller still holds
InitVariant ==
  /\ InitStores
  /\ bundle = [stage |-> "off"]
  /\ \E bullets \in VariantLists :
       call = [fn |-> "variant_b", stage |-> "called", arg |-> bullets, bullets |-> bullets]

\* sorted() builds a new list: the caller's list is not written
VariantReturn ==
  /\ call.fn = "variant_b" /\ call.stage = "called"
  /\ call' = [call EXCEPT !.stage = "returned"] @@ [result |-> variant_b(call.bullets)]
  /\ UNCHANGED notCall

NextVariant == VariantReturn

SpecVariant == InitVariant /\ [][NextVariant]_vars

\* ------------------------------------------------------------ keyword sets
\* STOPWORDS of HogueResMaster_v11_final_fat.py; HogueResMaster_v11.py has none
STOPWORDS ==
  { "a", "an", "and", "or", "the", "but", "with", "for", "to", "from", "on", "in", "at",
    "as", "by", "of", "be", "is", "are", "was", "were", "will", "would", "shall", "should",
    "can", "could", "into", "within", "without", "among", "across", "per", "plus", "via",
    "than", "then", "that", "this", "those", "it", "its", "your", "you", "we", "our", "they",
    "them", "their", "he", "she", "his", "her", "who", "whom", "which", "what", "when",
    "where", "why", "how" }

\* clean_tokens of HogueResMaster_v11_final_fat.py: the words that are not
\* stopwords, in text order
fat_clean_tokens(text) == SelectSeq(clean_tokens(text), LAMBDA t : t \notin STOPWORDS)

\* the first topn distinct entries of a list of tokens, as a set
first_distinct(toks, topn) ==
  LET firsts == {k \in 1..Len(toks) : \A j \in 1..(k - 1) : toks[j] # toks[k]}
  IN  {toks[k] : k \in {f \in firsts : Cardinality({j \in firsts : j < f}) < topn}}

\* kw_set of HogueResMaster_v11_final_fat.py
fat_kw_set(text, topn) ==
  UNION {first_distinct(toks, topn) : toks \in {fat_clean_tokens(text)}}

KwVocabulary == {"The", "Led", "led", "docs", "a"}

KwTexts == UNION {[1..n -> KwVocabulary] : n \in 0..MaxKwLen}

\* a call of kw_set, of HogueResMaster_v11.py or of the final_fat build
InitKw ==
  /\ InitStores
  /\ bundle = [stage |-> "off"]
  /\ \E text \in KwTexts, topn \in 0..MaxTopn, f \in {"kw_set", "final_fat.kw_set"} :
       call = [fn |-> f, stage |-> "called", text |-> text, topn |-> topn]

KwSetReturn ==
  /\ call.fn = "kw_set" /\ call.stage = "called"
  /\ call' = [call EXCEPT !.stage = "returned"] @@ [result |-> kw_set(call.text, call.topn)]
  /\ UNCHANGED notCall

FatKwSetReturn ==
  /\ call.fn = "final_fat.kw_set" /\ call.stage = "called"
  /\ call' = [call EXCEPT !.stage = "returned"] @@ [result |-> fat_kw_set(call.text, call.topn)]
  /\ UNCHANGED notCall

NextKw ==
  \/ KwSetReturn
  \/ FatKwSetReturn

SpecKw == InitKw /\ [][NextKw]_vars

\* ------------------------------------------------------------ style ranking
\* the signals detect_signals can add to its result
Signals == {"federal", "healthcare", "academic", "executive", "technical", "metric_heavy"}

\* A weight is a float. It is written here as an integer: 100 times its
\* decimal value, plus 1 when the float lies one rounding error above that
\* decimal value (0.2 + 0.2 + 0.2 is 0.6000000000000001, written 61).
STYLE_WEIGHTS ==
  [s \in Signals |->
     CASE s = "federal" -> [style \in {"federal", "classic"} |->
                              IF style = "federal" THEN 60 ELSE 20]
       [] s = "healthcare" -> [style \in {"healthcare", "classic"} |->
                              IF style = "healthcare" THEN 50 ELSE 20]
       [] s = "academic" -> [style \in {"academic_cv", "classic"} |->
                              IF style = "academic_cv" THEN 60 ELSE 20]
       [] s = "executive" -> [style \in {"executive", "classic"} |->
                              IF style = "executive" THEN 50 ELSE 20]
       [] s = "technical" -> [style \in {"tech_ic", "hybrid"} |->
                              IF style = "tech_ic" THEN 50 ELSE 20]
       [] s = "metric_heavy" -> [style \in {"hybrid", "classic"} |->
                              IF style = "hybrid" THEN 30 ELSE 20]]

\* x + w in float64, for the sums the loop of rank_styles can form:
\* 0.4 + 0.2 = 0.6000000000000001 and 0.6000000000000001 + 0.2 = 0.8;
\* every other sum is the decimal one
float_add(x, w) ==
  IF x = 40 /\ w = 20 THEN 61
  ELSE IF x = 61 /\ w = 20 THEN 80
  ELSE x + w

\* round(conf, 2), in hundredths
round_2(x) == IF x = 61 THEN 60 ELSE x

\* the style keys in the order of Python's string comparison
KeysAscending ==
  <<"academic_cv", "classic", "executive", "federal", "healthcare", "hybrid", "tech_ic">>

\* the place of a style key in a list of all keys
place_in(order, k) == CHOOSE i \in 1..Len(order) : order[i] = k

\* a tie-break by the place in STYLE_ORDER
key_place_in_style_order(k) == place_in(STYLE_ORDER, k)

\* x[0] of the sort key: the style key, compared as a string
key_place(k) == place_in(KeysAscending, k)

\* sorted(scores.items(), key=lambda x: (-x[1], x[0])): the style keys by
\* descending weight, then by ascending key
ranked_keys(scores) ==
  LET keys == {STYLE_ORDER[i] : i \in 1..Len(STYLE_ORDER)}
      before(a, b) == \/ scores[a] > scores[b]
                      \/ scores[a] = scores[b] /\ key_place(a) < key_place(b)
      rank(k) == 1 + Cardinality({j \in keys : before(j, k)})
  IN  [i \in 1..Len(STYLE_ORDER) |-> CHOOSE k \in keys : rank(k) = i]

\* a runner-up that is always the default of next()
also_good_default(ranked, suggested) == "classic"

\* next((k for k,_ in ranked[1:] if k!=suggested), "classic")
also_good(ranked, suggested) ==
  LET rest == {i \in 2..Len(ranked) : ranked[i] # suggested}
  IN  IF rest = {} THEN "classic"
      ELSE ranked[CHOOSE i \in rest : \A j \in rest : i <= j]

\* rank_styles, lines 263-266: the result for the accumulated scores
rank_result(scores) ==
  LET ranked == ranked_keys(scores)
      suggested == ranked[1]
  IN  [ ranked |-> ranked,
        suggested |-> suggested,
        confidence |-> round_2(scores[suggested]),
        also_good |-> also_good(ranked, suggested) ]

\* the orders in which the set of detected signals can be enumerated
SignalOrders ==
  UNION {{q \in [1..n -> Signals] : \A a, b \in 1..n : a # b => q[a] # q[b]} : n \in 0..6}

\* a call of rank_styles: detect_signals has returned the set of the signals
\* in order, and the for loop will enumerate it in that order
InitRank ==
  /\ InitStores
  /\ bundle = [stage |-> "off"]
  /\ \E order \in SignalOrders :
       call = [ fn |-> "rank_styles", stage |-> "loop", order |-> order, k |-> 0,
                scores |-> [style \in {STYLE_ORDER[i] : i \in 1..Len(STYLE_ORDER)} |-> 0] ]

\* one turn of "for s in sigs": the weights of the signal are added
RankAccumulate ==
  /\ call.fn = "rank_styles" /\ call.stage = "loop"
  /\ call.k < Len(call.order)
  /\ LET s == call.order[call.k + 1]
     IN  call' = [call EXCEPT
                    !.k = @ + 1,
                    !.scores = [style \in DOMAIN @ |->
                                  IF style \in DOMAIN STYLE_WEIGHTS[s]
                                    THEN float_add(@[style], STYLE_WEIGHTS[s][style])
                                    ELSE @[style]]]
  /\ UNCHANGED notCall

\* the sort and the return
RankReturn ==
  /\ call.fn = "rank_styles" /\ call.stage = "loop"
  /\ call.k = Len(call.order)
  /\ call' = [call EXCEPT !.stage = "returned"] @@ [result |-> rank_result(call.scores)]
  /\ UNCHANGED notCall

NextRank ==
  \/ RankAccumulate
  \/ RankReturn

SpecRank == InitRank /\ [][NextRank]_vars

\* --------------------------------------------- payload of the builder builds
\* (HogueResMaster_v11_final_fat.py and HogueResMaster_v9_2_2.py)
\* A text is a sequence of tokens; an achievement line is a text.

\* the line ensure_metric_shell and inject_metric_shell insert
METRIC_SHELL ==
  << "Improved", "adoption", "by", "[CONFIRM]%", "and", "renewal", "rate", "by",
     "[CONFIRM]%", "across", "assigned", "accounts." >>

\* one entry of payload["experience"]
role(bullets) ==
  [company |-> "Company", title |-> "Title", dates |-> "[CONFIRM]-Present", bullets |-> bullets]

\* re.search(r"\d", x) for an achievement line
has_digit(x) == \E k \in 1..Len(x) : x[k] = "14%"

\* re.search(r"\\d", x): the pattern of a backslash followed by the letter d
has_backslash_d(x) == \E k \in 1..Len(x) : x[k] = "\\d"

\* ensure_metric_shell of HogueResMaster_v11_final_fat.py
ensure_metric_shell(pl) ==
  IF pl.experience = <<>> THEN pl
  ELSE LET b == pl.experience[1].bullets
       IN  IF ~ \E k \in 1..Len(b) : has_digit(b[k])
             THEN [pl EXCEPT !.experience[1].bullets = <<METRIC_SHELL>> \o b]
             ELSE pl

\* inject_metric_shell of HogueResMaster_v9_2_2.py
inject_metric_shell(pl) ==
  IF pl.experience = <<>> THEN pl
  ELSE LET b == pl.experience[1].bullets
       IN  IF ~ \E k \in 1..Len(b) : has_backslash_d(b[k])
             THEN [pl EXCEPT !.experience[1].bullets = <<METRIC_SHELL>> \o b]
             ELSE pl

\* achievement lines of the payloads the metric step is applied to
MetricBullets == {<<"Owned", "docs">>, <<"Grew", "14%">>, <<"\\d">>}

MetricBulletLists == UNION {[1..n -> MetricBullets] : n \in 0..2}

MetricPayloads ==
  { [ summary |-> <<"Led", "docs">>, core_items |-> <<"Docs">>, experience |-> e,
      education |-> <<"Education", "upon", "request">> ] :
      e \in {<<>>} \cup {<<role(b)>> : b \in MetricBulletLists}
              \cup {<<role(b), role(<<>>)>> : b \in MetricBulletLists} }

\* the metric step applied to a payload, and again to its own result; first
\* is the payload before the first application
InitMetric ==
  /\ InitStores
  /\ bundle = [stage |-> "off"]
  /\ \E pl \in MetricPayloads, f \in {"ensure_metric_shell", "inject_metric_shell"} :
       call = [fn |-> f, stage |-> "called", first |-> pl, payload |-> pl, n |-> 0]

EnsureMetricShell ==
  /\ call.fn = "ensure_metric_shell" /\ call.n < MaxApplications
  /\ call' = [call EXCEPT !.stage = "returned", !.n = @ + 1,
                          !.payload = ensure_metric_shell(@)]
  /\ UNCHANGED notCall

InjectMetricShell ==
  /\ call.fn = "inject_metric_shell" /\ call.n < MaxApplications
  /\ call' = [call EXCEPT !.stage = "returned", !.n = @ + 1,
                          !.payload = inject_metric_shell(@)]
  /\ UNCHANGED notCall

NextMetric ==
  \/ EnsureMetricShell
  \/ InjectMetricShell

SpecMetric == InitMetric /\ [][NextMetric]_vars

\* --------------------------------------------------------- keyword injection
RECURSIVE concat(_)
\* the texts of a list, one after the other
concat(texts) == IF texts = <<>> THEN <<>> ELSE Head(texts) \o concat(Tail(texts))

\* payload_to_text: the summary, the "Core: " line, a header and the lines of
\* every role, the education line (the bullet sign and the dash hold no letter
\* and no digit and are left out)
payload_to_text(pl) ==
  pl.summary \o <<"Core:">> \o pl.core_items
    \o concat([i \in 1..Len(pl.experience) |->
                 << pl.experience[i].title, "@", pl.experience[i].company,
                    pl.experience[i].dates >> \o concat(pl.experience[i].bullets)])
    \o (IF pl.education # <<>> THEN <<"Education:">> \o pl.education ELSE <<>>)

\* noise of inject_keywords
NOISE ==
  { "and", "with", "from", "will", "work", "role", "team", "customer", "customers",
    "clients", "provide", "years", "experience", "requirements", "must", "have" }

\* t.title() of a keyword
str_title(t) ==
  CASE t = "sql" -> "Sql"
    [] t = "python" -> "Python"
    [] t = "aws" -> "Aws"
    [] t = "git" -> "Git"
    [] t = "docs" -> "Docs"

\* a slice that keeps the whole list
take_all(s, n) == s

\* s[:n]
take(s, n) == SubSeq(s, 1, IF n < Len(s) THEN n ELSE Len(s))

\* s[n:]
drop(s, n) == SubSeq(s, (IF n < Len(s) THEN n ELSE Len(s)) + 1, Len(s))

\* the orders in which list(...) can enumerate a set
Orders(S) ==
  {q \in [1..Cardinality(S) -> S] : \A a, b \in 1..Cardinality(S) : a # b => q[a] # q[b]}

\* kw_set(jd_text) - kw_set(payload_to_text(payload)), topn = 400
missing_set(pl, jd_text) == fat_kw_set(jd_text, 400) \ fat_kw_set(payload_to_text(pl), 400)

\* inject_keywords, identical in HogueResMaster_v11_final_fat.py and
\* HogueResMaster_v9_2_2.py; order is the order in which list() enumerates
\* the set of missing keywords
inject_keywords(pl, jd_text, per_section_caps, order) ==
  LET missing0 == take(SelectSeq(order, LAMBDA m : m \notin NOISE), 6)
      sum_cap == per_section_caps[1]
      core_cap == per_section_caps[2]
      bullet_cap == per_section_caps[3]
      do_sum == sum_cap # 0 /\ missing0 # <<>>
      pl1 == IF do_sum
               THEN [pl EXCEPT !.summary = @ \o <<"Focus:">> \o take(missing0, sum_cap)]
               ELSE pl
      missing1 == IF do_sum THEN drop(missing0, sum_cap) ELSE missing0
      do_core == core_cap # 0 /\ missing1 # <<>>
      cand == take(missing1, core_cap)
      fresh == {k \in 1..Len(cand) :
                  /\ \A i \in 1..Len(pl.core_items) : pl.core_items[i] # str_title(cand[k])
                  /\ \A j \in 1..(k - 1) : str_title(cand[j]) # str_title(cand[k])}
      appended == [i \in 1..Cardinality(fresh) |->
                     str_title(cand[CHOOSE k \in fresh : Cardinality({j \in fresh : j < k}) = i - 1])]
      pl2 == IF do_core THEN [pl1 EXCEPT !.core_items = @ \o appended] ELSE pl1
      missing2 == IF do_core THEN drop(missing1, core_cap) ELSE missing1
      do_bullet == bullet_cap # 0 /\ missing2 # <<>> /\ pl.experience # <<>>
      line == <<"Advanced">> \o take(missing2, bullet_cap)
                \o <<"initiatives", "aligned", "to", "role", "requirements.">>
  IN  IF missing0 = <<>> THEN pl
      ELSE IF do_bullet THEN [pl2 EXCEPT !.experience[1].bullets = <<line>> \o @]
      ELSE pl2

InjectPayloads ==
  { [ summary |-> sm, core_items |-> c, experience |-> e,
      education |-> <<"Education", "upon", "request">> ] :
      sm \in {<<>>, <<"Led", "docs">>},
      c \in {<<>>, <<"Sql">>},
      e \in {<<>>, <<role(<<>>)>>, <<role(<< <<"Owned", "docs">> >>), role(<<>>)>>} }

InjectJds ==
  { <<>>, <<"The", "team">>, <<"sql">>, <<"sql", "docs", "team">>,
    <<"python", "sql", "aws">>, <<"git", "aws", "python", "sql">> }

\* a call of inject_keywords; first is the payload before the call
InitInject ==
  /\ InitStores
  /\ bundle = [stage |-> "off"]
  /\ \E pl \in InjectPayloads, jd_text \in InjectJds,
        caps \in [1..3 -> 0..MaxInjectCap] :
       call = [ fn |-> "inject_keywords", stage |-> "called", first |-> pl, payload |-> pl,
                jd_text |-> jd_text, per_section_caps |-> caps ]

InjectKeywords ==
  /\ call.fn = "inject_keywords" /\ call.stage = "called"
  /\ \E order \in Orders(missing_set(call.payload, call.jd_text)) :
       call' = [call EXCEPT
                  !.stage = "returned",
                  !.payload = inject_keywords(@, call.jd_text, call.per_section_caps, order)]
  /\ UNCHANGED notCall

NextInject == InjectKeywords

SpecInject == InitInject /\ [][NextInject]_vars

\* ------------------------------------------- optimize_to_target (v9_2_2 build)
\* "\\n".join(lines) of HogueResMaster_v9_2_2.py joins the lines with a
\* backslash and the letter n: the first token of every line but the first
\* begins with them
after_join(tok) ==
  CASE tok = "Core:" -> "\\nCore:"
    [] tok = "Title" -> "\\nTitle"
    [] tok = "Education:" -> "\\nEducation:"

\* payload_to_text of HogueResMaster_v9_2_2.py (the payload has no
\* licenses_certs; a bullet line begins with the bullet sign, so the n of the
\* join stands alone before it)
v9_payload_to_text(pl) ==
  pl.summary \o <<after_join("Core:")>> \o pl.core_items
    \o concat([i \in 1..Len(pl.experience) |->
                 << after_join(pl.experience[i].title), "@", pl.experience[i].company,
                    pl.experience[i].dates >> \o concat(pl.experience[i].bullets)])
    \o (IF pl.education # <<>> THEN <<after_join("Education:")>> \o pl.education ELSE <<>>)

\* ats_score of HogueResMaster_v9_2_2.py: its patterns are written with
\* doubled backslashes, so the verb and URL patterns match no text without a
\* backslash, and the number pattern matches a backslash followed by d
v9_ats_score(tx) ==
  ats_of_counts(0, Cardinality({k \in 1..Len(tx) : tx[k] = "\\d"}), 0)

\* hire of composite_scores of HogueResMaster_v9_2_2.py
v9_hire(jd, txt) ==
  hire(coverage(fat_kw_set(jd, 400), fat_kw_set(txt, 400)), v9_ats_score(txt))

\* a test that never ends the loop
target_never_met(h, target) == FALSE

\* if hire >= target: break
target_met(h, target) == h >= target

\* a call of optimize_to_target; i is the number of rounds completed
InitOptimize ==
  /\ InitStores
  /\ bundle = [stage |-> "off"]
  /\ \E pl \in InjectPayloads, jd_text \in InjectJds, target \in {0, 50, 95},
        max_iters \in 0..MaxIters :
       call = [ fn |-> "optimize_to_target", stage |-> "round_start", first |-> pl,
                payload |-> pl, jd_text |-> jd_text, target |-> target,
                max_iters |-> max_iters, i |-> 0 ]

\* the start of a round: the score is taken and the loop is left, or not
OptimizeScore ==
  /\ call.fn = "optimize_to_target" /\ call.stage = "round_start"
  /\ call.i < call.max_iters
  /\ \E txt \in {v9_payload_to_text(call.payload)} :
       IF target_met(v9_hire(call.jd_text, txt), call.target)
         THEN call' = [call EXCEPT !.stage = "returned"] @@ [result |-> call.payload]
         ELSE call' = [call EXCEPT !.stage = "inject_keywords"]
  /\ UNCHANGED notCall

\* payload = inject_keywords(payload, jd_text)
OptimizeInjectKeywords ==
  /\ call.fn = "optimize_to_target" /\ call.stage = "inject_keywords"
  /\ \E txt \in {v9_payload_to_text(call.payload)} :
     \E missing \in {fat_kw_set(call.jd_text, 400) \ fat_kw_set(txt, 400)} :
     \E order \in Orders(missing) :
       call' = [call EXCEPT
                  !.stage = "inject_metric_shell",
                  !.payload = inject_keywords(@, call.jd_text, <<2, 2, 2>>, order)]
  /\ UNCHANGED notCall

\* payload = inject_metric_shell(payload), the end of a round
OptimizeInjectMetric ==
  /\ call.fn = "optimize_to_target" /\ call.stage = "inject_metric_shell"
  /\ call' = [call EXCEPT !.stage = "round_start", !.i = @ + 1,
                          !.payload = inject_metric_shell(@)]
  /\ UNCHANGED notCall

\* range(max_iters) is exhausted: return payload
OptimizeExhausted ==
  /\ call.fn = "optimize_to_target" /\ call.stage = "round_start"
  /\ call.i = call.max_iters
  /\ call' = [call EXCEPT !.stage = "returned"] @@ [result |-> call.payload]
  /\ UNCHANGED notCall

NextOptimize ==
  \/ OptimizeScore
  \/ OptimizeInjectKeywords
  \/ OptimizeInjectMetric
  \/ OptimizeExhausted

SpecOptimize == InitOptimize /\ [][NextOptimize]_vars

\* the interpreter runs the loop on: a step that can be taken is taken
SpecOptimizeFair == SpecOptimize /\ WF_vars(NextOptimize)

\* ------------------------------------------------- one style, any style key
\* the keys of STYLE_PRESETS, and keys that are not among them
KnownStyleKeys == {STYLE_ORDER[i] : i \in 1..Len(STYLE_ORDER)}

AnyStyleKeys == KnownStyleKeys \cup {"retro", "Classic", "federal "}

\* one call of generate_for_style, as the loop of run_auto makes it
InitStyle ==
  /\ InitStores
  /\ bundle = [stage |-> "off"]
  /\ \E style_key \in AnyStyleKeys, person \in Persons, company \in Companies,
        title \in Titles, outdir \in Outdirs :
       call = [ fn |-> "generate_for_style", stage |-> "called", style_key |-> style_key,
                person |-> person, company |-> company, title |-> title, outdir |-> outdir ]

GenerateForStyle ==
  /\ call.fn = "generate_for_style" /\ call.stage = "called"
  /\ call' = [call EXCEPT !.stage = "ended"]
               @@ [result |-> generate_for_style(call.outdir, call.style_key, call.person,
                                                 call.company, call.title, DOCX_OK, PDF_OK)]
  /\ UNCHANGED notCall

NextStyle == GenerateForStyle

SpecStyle == InitStyle /\ [][NextStyle]_vars

\* =================================================================== claims
\* the phases of a call that was skipped, and of one that built
SkippedPhases == <<"Start", "CacheCheck", "SkippedIdempotent", "Done">>
BuiltPhases == <<"Start", "CacheCheck", "PerStyleLoop", "Bundle", "Done">>

\* a list without its repeated elements, in order of first occurrence
Dedupe(s) ==
  LET d[k \in 0..Len(s)] ==
        IF k = 0 THEN <<>>
        ELSE IF s[k] \in Range(d[k - 1]) THEN d[k - 1] ELSE Append(d[k - 1], s[k])
  IN  d[Len(s)]

\* C1: of two consecutive calls of run_auto with identical arguments (and a
\* style requested), the second is skipped: it returns [], writes no artifact
\* and invokes no writer or packager.
C1_SecondCallSkipped ==
  \A r \in Runs :
    (pc[r] \in Ended /\ prev[r] # 0 /\ inp[prev[r]] = inp[r] /\ Len(inp[r].styles) >= 1)
      => /\ pc[r] = "SkippedIdempotent"
         /\ ret[r] = <<>>
         /\ nwrites[r] = 0
         /\ "artifact" \notin effects[r]

\* C2 (as claimed): a call that is skipped at the cache check has changed no
\* persisted state (cache, memory record) and created nothing in the output
\* location.
C2_SkipNoSideEffects ==
  \A r \in Runs : pc[r] = "SkippedIdempotent" => effects[r] = {}

\* C2 (amended): a call that finds its signature cached returns [] having
\* written no artifact and no cache entry: the cache-check step itself changes
\* no store.  Before the check, however, the call has made sure the output
\* directory exists and has overwritten the last-used-options record with its
\* own selection, so the memory record and the output directory are the only
\* persisted state a skipped call can change.
C2_SkipEffects ==
  /\ [](\A r \in Runs :
          pc[r] = "SkippedIdempotent"
            => /\ ret[r] = <<>>
               /\ nwrites[r] = 0
               /\ nmarks[r] = 0
               /\ effects[r] \subseteq {"memory", "outdir"})
  /\ [][\A r \in Runs :
          (pc[r] = "idle" /\ pc'[r] = "CacheCheck")
            => /\ memory' = [last_selection |-> Selection(inp'[r].styles)]
               /\ inp'[r].outdir \in dirs'
               /\ cache' = cache /\ disk' = disk /\ zips' = zips]_vars
  /\ [][\A r \in Runs :
          (pc[r] = "CacheCheck" /\ pc'[r] = "SkippedIdempotent")
            => /\ cache' = cache /\ memory' = memory /\ dirs' = dirs
               /\ disk' = disk /\ zips' = zips]_vars

\* C2 witness: a skipped call that changed the memory record
C2_SkippedRunChangedMemory ==
  \E r \in Runs : pc[r] = "SkippedIdempotent" /\ "memory" \in effects[r]

\* C4: when generate_for_style fails for one of several requested styles, the
\* call still runs every other requested style and does not end with that
\* style's exception.
C4_StyleFailureIsolated ==
  \A r \in Runs :
    (pc[r] \in Ended /\ pc[r] # "SkippedIdempotent" /\ Cardinality(Range(inp[r].styles)) >= 2)
      => /\ Range(inp[r].styles) \subseteq Range(attempted[r])
         /\ ret[r] # "AttributeError"

\* C5: a call with one or more requested styles goes Start, CacheCheck, then
\* SkippedIdempotent, or PerStyleLoop and Bundle, and ends in Done.
C5_PhaseOrder ==
  \A r \in Runs :
    (pc[r] \in Ended /\ Len(inp[r].styles) >= 1)
      => phases[r] \in {SkippedPhases, BuiltPhases}

\* C6: two calls with the same signature (and a style requested) are never both between their cache
\* check and their end: the check-then-record sequences do not interleave.
C6_CheckRecordSerialized ==
  \A r1, r2 \in Runs :
    ( /\ r1 # r2
      /\ pc[r1] = "PerStyleLoop" /\ Len(inp[r1].styles) >= 1
      /\ pc[r2] = "PerStyleLoop" /\ Len(inp[r2].styles) >= 1 )
      => RunSignature(inp[r1]) # RunSignature(inp[r2])

\* C7: two calls that differ in an input that affects the artifacts (resume
\* text, job text, identity, company, title, styles, output location) never
\* look up the same signature.
C7_SignatureCoversInputs ==
  \A r1, r2 \in Runs :
    ( /\ pc[r1] \notin {"idle", "CacheCheck"} /\ Len(inp[r1].styles) >= 1
      /\ pc[r2] \notin {"idle", "CacheCheck"} /\ Len(inp[r2].styles) >= 1
      /\ inp[r1] # inp[r2] )
      => RunSignature(inp[r1]) # RunSignature(inp[r2])

C9_DistinctStylesOnce ==
  \A r \in Runs :
    (pc[r] \in Ended /\ pc[r] # "SkippedIdempotent" /\ Len(inp[r].styles) >= 1)
      => attempted[r] = Dedupe(inp[r].styles)

\* the bucket of an artifact by its kind (the tokens after the name stem)
KindBucket(f) ==
  LET kind == SubSeq(f.name, 7, Len(f.name))
  IN  CASE kind \in {<<"RESUME">>, <<"RESUME", "VARIANT", "B">>, <<"ATS">>} -> "Resume"
        [] kind \in {<<"COVER">>, <<"COMBINED">>} -> "Cover"
        [] kind = <<"INTERVIEW", "GUIDE">> -> "Guides"
        [] kind \in {<<"RUN", "REPORT">>, <<"REDLINE">>} -> "Reports"
        [] kind = <<"USAJOBS", "CHECKLIST">> -> "Federal"
        [] OTHER -> "none"

\* C10: every artifact of the per-style loop is in exactly one bucket, the
\* one of its kind.
C10_EveryArtifactBucketed ==
  bundle.stage \in {"classified", "zipped"}
    => \A k \in 1..Len(bundle.all_files) :
         LET f == bundle.all_files[k]
         IN  /\ Cardinality({b \in Buckets : f \in Range(bundle.buckets[b])}) = 1
             /\ f \in Range(bundle.buckets[KindBucket(f)])

\* C13: every score set composite_scores returns has coverage, scan health
\* and hire likelihood in 0..100, and so has the scan score of every
\* combination of verb, number and URL counts.
C13_ScoresInRange ==
  /\ (call.stage = "returned" /\ call.fn = "composite_scores")
       => /\ call.result.match \in 0..100
          /\ call.result.scan \in 0..100
          /\ call.result.hire \in 0..100
  /\ (call.stage = "returned" /\ call.fn = "ats_score")
       => call.result \in 0..100

\* C13 witness: a score set with full coverage and a positive scan score
C13_FullCoverageScored ==
  /\ call.fn = "composite_scores" /\ call.stage = "returned"
  /\ call.result.match = 100
  /\ call.result.scan > 0

\* C14 (as claimed): coverage is 100 whenever the job text is not empty and
\* the candidate's keyword set contains the job's.
C14_SupersetOfNonEmptyJob ==
  ( /\ call.fn = "composite_scores" /\ call.stage = "returned"
    /\ call.jd # <<>>
    /\ kw_set(call.jd, 400) \subseteq kw_set(call.txt, 400) )
    => call.result.match = 100

\* C14 (amended): coverage is 100 whenever the job text has one keyword or
\* more (a word of two letters or more) and the candidate's keyword set
\* contains the job's; a job text without a keyword, empty or not, has
\* coverage 0.
C14_SupersetOfJobKeywords ==
  (call.fn = "composite_scores" /\ call.stage = "returned")
    => /\ ( /\ kw_set(call.jd, 400) # {}
            /\ kw_set(call.jd, 400) \subseteq kw_set(call.txt, 400) )
          => call.result.match = 100
       /\ kw_set(call.jd, 400) = {} => call.result.match = 0

\* C14 witness: a job text of two keywords, both in a candidate text that has
\* more
C14_TwoKeywordsCovered ==
  /\ call.fn = "composite_scores" /\ call.stage = "returned"
  /\ Cardinality(kw_set(call.jd, 400)) = 2
  /\ kw_set(call.jd, 400) \subseteq kw_set(call.txt, 400)
  /\ kw_set(call.jd, 400) # kw_set(call.txt, 400)
  /\ call.result.match = 100

\* the grade table: inclusive lower bounds, best grade first
GradeTable ==
  << <<97, "A+">>, <<93, "A">>, <<90, "A-">>, <<87, "B+">>, <<83, "B">>, <<80, "B-">>,
     <<77, "C+">>, <<73, "C">>, <<70, "C-">>, <<60, "D">>, <<0, "F">> >>

\* the position of a grade in the table (1: best)
GradeRank(g) == CHOOSE k \in 1..Len(GradeTable) : GradeTable[k][2] = g

\* C15: the grade of a score set is the first grade of the table whose lower
\* bound the hire likelihood reaches, and one more point of hire likelihood
\* never gives a worse grade.
C15_GradeIsTableStep ==
  (call.fn = "score_set" /\ call.stage = "returned")
    => LET h == call.result.hire
           k == GradeRank(call.result.grade)
       IN  /\ h >= GradeTable[k][1]
           /\ \A j \in 1..(k - 1) : h < GradeTable[j][1]
           /\ GradeRank(letter_grade(h + 1)) <= k

\* C15 witness: hire likelihood 96 is graded A, one point below the A+ bound
C15_Grade96IsA ==
  /\ call.fn = "score_set" /\ call.stage = "returned"
  /\ call.result.hire = 96
  /\ call.result.grade = "A"

\* C16 (as claimed): hire likelihood is the mean of coverage and scan health
\* rounded to the nearest integer, a mean ending in .5 rounded up.
C16_HireRoundsHalfUp ==
  (call.fn = "score_set" /\ call.stage = "returned")
    => 2 * call.result.hire \in {call.cov + call.ats, call.cov + call.ats + 1}

\* C16 (amended): hire likelihood is the mean of coverage and scan health when
\* that is an integer; when the mean ends in .5 it is the even one of the two
\* nearest integers (round half to even), so 97 and 96 give 96, not 97.
C16_HireRoundsHalfEven ==
  (call.fn = "score_set" /\ call.stage = "returned")
    => LET sum == call.cov + call.ats
           h == call.result.hire
       IN  IF sum % 2 = 0
             THEN 2 * h = sum
             ELSE /\ 2 * h \in {sum - 1, sum + 1}
                  /\ h % 2 = 0

\* C16 witness: coverage 97 and scan health 96, mean 96.5, give 96
C16_TieGoesToEven ==
  /\ call.fn = "score_set" /\ call.stage = "returned"
  /\ call.cov = 97 /\ call.ats = 96
  /\ call.result.hire = 96

\* C17: with an empty job text composite_scores returns coverage 0, the scan
\* health of the candidate text (the one it has with any job text), a hire
\* likelihood and grade that follow from the scan health alone; with both
\* texts empty it returns 0, 0 and grade F.
C17_EmptyJobText ==
  (call.fn = "composite_scores" /\ call.stage = "returned" /\ call.jd = <<>>)
    => /\ call.result.match = 0
       /\ \A jd \in Texts : composite_scores(jd, call.txt).scan = call.result.scan
       /\ 2 * call.result.hire \in {call.result.scan - 1, call.result.scan, call.result.scan + 1}
       /\ call.result.grade = "F"
       /\ call.txt = <<>> => (call.result.scan = 0 /\ call.result.hire = 0)

\* C17 witness: an empty job text and a candidate text with a positive scan
\* health
C17_EmptyJobScored ==
  /\ call.fn = "composite_scores" /\ call.stage = "returned"
  /\ call.jd = <<>>
  /\ call.result.scan > 0
  /\ call.result.match = 0

\* C18: passing the result of tighten_bullets to tighten_bullets again, with
\* the same cap, returns it unchanged.
C18_TightenIdempotent ==
  (call.fn = "tighten_bullets" /\ call.stage = "again")
    => call.again = call.result

\* C19: the list tighten_bullets returns has at most n entries, n the cap it
\* was called with.
C19_AtMostCapEntries ==
  (call.fn = "tighten_bullets" /\ call.stage \in {"returned", "again"})
    => Len(call.result) <= call.n

\* C20: the list tighten_bullets returns has no empty entry and no two
\* entries that are equal up to case.
C20_NoEmptyNoDuplicate ==
  (call.fn = "tighten_bullets" /\ call.stage \in {"returned", "again"})
    => /\ \A k \in 1..Len(call.result) : call.result[k] # <<>>
       /\ \A j, k \in 1..Len(call.result) :
            j # k => lower(call.result[j]) # lower(call.result[k])

\* C11: the resume composed for a style key is the one that key gets when it
\* is the first to be composed in the process, whatever was composed before.
C11_StyleContentIndependent ==
  call.fn = "compose_resume_text"
    => \A j \in 1..Len(call.out) :
         call.out[j].resume =
           compose_resume_text(call.styles[j], call.person, run_payload(call.title), {}).lines

\* C12: every concrete number in the payload run_auto builds is written in
\* the resume text or the job text of the run.
C12_NumbersComeFromSource ==
  (call.fn = "run_auto.payload" /\ call.stage = "built")
    => payload_numbers(call.payload)
         \subseteq (text_numbers(call.resume_text) \cup text_numbers(call.jd_text))

\* C22: variant_b returns a permutation of its input, ordered by descending
\* score with lines of equal score in their original relative order, and the
\* list passed in is not changed.
C22_StablePermutation ==
  (call.fn = "variant_b" /\ call.stage = "returned") =>
    LET n == Len(call.arg)
    IN  /\ call.bullets = call.arg
        /\ Len(call.result) = n
        /\ \E p \in {q \in [1..n -> 1..n] : \A a, b \in 1..n : a # b => q[a] # q[b]} :
             /\ \A i \in 1..n : call.result[i] = call.arg[p[i]]
             /\ \A i, j \in 1..n : i < j =>
                  \/ variant_score(call.arg[p[i]]) > variant_score(call.arg[p[j]])
                  \/ /\ variant_score(call.arg[p[i]]) = variant_score(call.arg[p[j]])
                     /\ p[i] < p[j]

\* C22 witness: a list with two different lines of equal score behind a line
\* of lower rank has been reordered.
C22_TieKeptInOrder ==
  /\ call.fn = "variant_b" /\ call.stage = "returned"
  /\ call.arg = <<"Wrote docs", "Cut cost 14%.", "Saved $5k">>
  /\ call.result = <<"Saved $5k", "Wrote docs", "Cut cost 14%.">>

\* C25: every set returned by kw_set holds only lower-case words of two
\* letters or more, holds no stopword, has at most cap elements, and is
\* exactly the first cap distinct non-stopword words of the text in the order
\* they are first seen.
C25_KeywordSetWellFormed ==
  (call.fn \in {"kw_set", "final_fat.kw_set"} /\ call.stage = "returned") =>
    LET words == clean_tokens(call.text)
        kept == {k \in 1..Len(words) :
                   /\ words[k] \notin STOPWORDS
                   /\ \A j \in 1..(k - 1) : words[j] # words[k]}
    IN  /\ call.result \cap STOPWORDS = {}
        /\ Cardinality(call.result) <= call.topn
        /\ call.result \subseteq {"led", "docs", "the"}
        /\ call.result =
             {words[k] : k \in {f \in kept : Cardinality({j \in kept : j < f}) < call.topn}}

\* the weight a style has accumulated for a set of signals, whatever the
\* order: the decimal sum, but for 0.2 added three times
WeightOfSet(sigs, style) ==
  LET c(s) == IF s \in sigs /\ style \in DOMAIN STYLE_WEIGHTS[s]
                THEN STYLE_WEIGHTS[s][style] ELSE 0
      total == c("federal") + c("healthcare") + c("academic") + c("executive")
                 + c("technical") + c("metric_heavy")
  IN  IF style = "classic" /\ total = 60 THEN 61 ELSE total

\* C26: rank_styles orders the styles by descending accumulated weight, ties
\* by the ascending order of the style keys; the suggested style has the
\* largest weight, confidence is that weight rounded, and the result depends
\* on the set of signals only, not on the order they are enumerated in.
C26_RankedByWeightThenKey ==
  (call.fn = "rank_styles" /\ call.stage = "returned") =>
    LET sigs == {call.order[i] : i \in 1..Len(call.order)}
        r == call.result
        w(k) == WeightOfSet(sigs, k)
    IN  /\ \A k \in DOMAIN call.scores : call.scores[k] = w(k)
        /\ {r.ranked[i] : i \in 1..7} = DOMAIN call.scores
        /\ \A i, j \in 1..7 : i < j =>
             \/ w(r.ranked[i]) > w(r.ranked[j])
             \/ /\ w(r.ranked[i]) = w(r.ranked[j])
                /\ place_in(KeysAscending, r.ranked[i]) < place_in(KeysAscending, r.ranked[j])
        /\ r.suggested = r.ranked[1]
        /\ \A k \in DOMAIN call.scores : w(k) <= w(r.suggested)
        /\ r.confidence = (w(r.suggested) \div 10) * 10

\* C26 witness: the technical and executive signals give two styles the same
\* largest weight, and the tie went to the smaller key.
C26_TieAtTheTop ==
  /\ call.fn = "rank_styles" /\ call.stage = "returned"
  /\ call.order = <<"technical", "executive">>
  /\ call.result.suggested = "executive"
  /\ call.result.confidence = 50
  /\ call.scores["tech_ic"] = call.scores["executive"]

\* C27: also_good is the first runner-up of the ranking and differs from
\* suggested; when no signal fired it is classic.
C27_AlsoGoodIsRunnerUp ==
  (call.fn = "rank_styles" /\ call.stage = "returned") =>
    /\ call.result.also_good = call.result.ranked[2]
    /\ call.result.also_good # call.result.suggested
    /\ call.order = <<>> => call.result.also_good = "classic"

\* C27 witness: a ranking has been returned for no signal at all.
C27_NoSignalRanked ==
  /\ call.fn = "rank_styles" /\ call.stage = "returned"
  /\ call.order = <<>>
  /\ call.result.also_good = "classic"
  /\ call.result.confidence = 0

\* C24: after one application of the metric step, if the payload has a role
\* and no achievement line of its first role holds a digit, exactly one
\* placeholder line with the [CONFIRM] marker and no digit has been put in
\* front of that role's lines; otherwise the payload is unchanged.
C24_PlaceholderOnlyWithoutDigit ==
  (call.fn \in {"ensure_metric_shell", "inject_metric_shell"} /\ call.n = 1) =>
    IF call.first.experience = <<>> THEN call.payload = call.first
    ELSE LET b == call.first.experience[1].bullets
         IN  IF \E k \in 1..Len(b) : \E t \in 1..Len(b[k]) : b[k][t] = "14%"
               THEN call.payload = call.first
               ELSE /\ call.payload =
                         [call.first EXCEPT !.experience[1].bullets = <<METRIC_SHELL>> \o b]
                    /\ \E t \in 1..Len(METRIC_SHELL) : METRIC_SHELL[t] = "[CONFIRM]%"
                    /\ \A t \in 1..Len(METRIC_SHELL) : METRIC_SHELL[t] # "14%"

\* C29: however often the metric step is applied to its own result, the first
\* role holds at most one placeholder line.
C29_AtMostOnePlaceholder ==
  (call.fn \in {"ensure_metric_shell", "inject_metric_shell"}
     /\ call.payload.experience # <<>>) =>
    LET b == call.payload.experience[1].bullets
    IN  Cardinality({k \in 1..Len(b) : b[k] = METRIC_SHELL}) <= 1

\* C21: one call of inject_keywords adds at most summary-cap keywords to the
\* summary, at most skills-cap entries to the skill list, none of them equal
\* to a skill already there or to another added one, and at most one
\* achievement line, in front of the first role's lines, naming at most
\* bullet-cap keywords; nothing else of the payload changes.
C21_InjectionWithinCaps ==
  (call.fn = "inject_keywords" /\ call.stage = "returned") =>
    LET p0 == call.first
        p1 == call.payload
        caps == call.per_section_caps
        ns == Len(p1.summary) - Len(p0.summary)
        nc == Len(p1.core_items) - Len(p0.core_items)
        wanted == fat_kw_set(call.jd_text, 400) \ NOISE
    IN  /\ ns >= 0 /\ SubSeq(p1.summary, 1, Len(p0.summary)) = p0.summary
        /\ ns > 0 => /\ p1.summary[Len(p0.summary) + 1] = "Focus:"
                     /\ ns - 1 \in 1..caps[1]
                     /\ \A i \in (Len(p0.summary) + 2)..Len(p1.summary) : p1.summary[i] \in wanted
        /\ nc \in 0..caps[2] /\ SubSeq(p1.core_items, 1, Len(p0.core_items)) = p0.core_items
        /\ \A i \in (Len(p0.core_items) + 1)..Len(p1.core_items) :
             \A j \in 1..Len(p1.core_items) : j # i => p1.core_items[j] # p1.core_items[i]
        /\ p1.education = p0.education
        /\ Len(p1.experience) = Len(p0.experience)
        /\ \A i \in 2..Len(p0.experience) : p1.experience[i] = p0.experience[i]
        /\ p0.experience # <<>> =>
             LET b0 == p0.experience[1].bullets
                 b1 == p1.experience[1].bullets
             IN  /\ [p1.experience[1] EXCEPT !.bullets = b0] = p0.experience[1]
                 /\ \/ b1 = b0
                    \/ /\ Tail(b1) = b0
                       /\ Head(b1)[1] = "Advanced"
                       /\ Cardinality({t \in 1..Len(Head(b1)) : Head(b1)[t] \in wanted})
                            \in 1..caps[3]

\* C21 witness: with caps (1, 1, 1) and four missing keywords, the summary,
\* the skill list and the first role have each gained one keyword.
C21_EverySectionFilled ==
  /\ call.fn = "inject_keywords" /\ call.stage = "returned"
  /\ call.per_section_caps = <<1, 1, 1>>
  /\ call.jd_text = <<"git", "aws", "python", "sql">>
  /\ Len(call.payload.summary) = Len(call.first.summary) + 2
  /\ Len(call.payload.core_items) = Len(call.first.core_items) + 1
  /\ call.first.experience # <<>>
  /\ Len(call.payload.experience[1].bullets) = Len(call.first.experience[1].bullets) + 1

\* the rounds of optimize_to_target are bounded and guarded
OptimizeRoundsGuarded ==
  (call.fn = "optimize_to_target") =>
    /\ call.i <= call.max_iters
    /\ call.stage \in {"inject_keywords", "inject_metric_shell"} =>
         /\ call.i < call.max_iters
         /\ call.stage = "inject_keywords" =>
              v9_hire(call.jd_text, v9_payload_to_text(call.payload)) < call.target
    /\ call.stage = "returned" =>
         /\ call.result = call.payload
         /\ \/ call.i = call.max_iters
            \/ v9_hire(call.jd_text, v9_payload_to_text(call.payload)) >= call.target

\* C30: optimize_to_target always terminates and returns the payload: it
\* performs at most max_iters rounds, and begins no round when the hire score
\* at the start of the round is at least the target.
C30_OptimizeTerminates ==
  /\ []OptimizeRoundsGuarded
  /\ <>(call.fn = "optimize_to_target" /\ call.stage = "returned")

\* C30 witness: the target of 50 was missed at the start of the first round
\* and met at the start of the second, with rounds left.
C30_StoppedOnTarget ==
  /\ call.fn = "optimize_to_target" /\ call.stage = "returned"
  /\ call.target = 50 /\ call.max_iters = 2 /\ call.i = 1
  /\ call.payload # call.first

\* C23: a style key that is not a known one is refused: the call for it ends
\* with an error and leaves no artifact.
C23_UnknownStyleRefused ==
  (call.fn = "generate_for_style" /\ call.stage = "ended"
     /\ call.style_key \notin KnownStyleKeys) =>
    /\ call.result.raised
    /\ call.result.written = {}
    /\ call.result.files = <<>>

\* C28: a call of run_auto records its signature only when it has attempted
\* every requested style and ends in Done; a call that raised has recorded
\* nothing and left the cache as it was; and, with no other caller of
\* mark_built, a call is skipped only if a call with the same signature is Done.
C28_RecordedOnlyOnCompletion ==
  \A r \in Runs :
    /\ nmarks[r] > 0 => (pc[r] = "Done" /\ attempted[r] = inp[r].styles)
    /\ pc[r] = "Raised" => (nmarks[r] = 0 /\ "cache" \notin effects[r])
    /\ (pc[r] = "SkippedIdempotent" /\ nrecords = 0) =>
         \E q \in Runs : /\ q # r
                         /\ pc[q] = "Done"
                         /\ RunSignature(inp[q]) = RunSignature(inp[r])

\* C28 witness: the first call raised in its per-style loop, and the second
\* call, begun afterwards with the same inputs, was not skipped.
C28_RetryNotSkipped ==
  /\ pc[1] = "Raised" /\ Len(attempted[1]) >= 1
  /\ prev[2] = 1
  /\ inp[2] = inp[1]
  /\ pc[2] = "PerStyleLoop"
  /\ cache = << >>

====
